---- MODULE Spec2Model ----
(***************************************************************************)
(* State-machine model of the watch-cycle engine of bot.py: main()'s       *)
(* endless cycle loop, one RedditMonitor per configured subreddit per      *)
(* cycle, each running search_reddit_for_keywords on a worker thread of a  *)
(* ThreadPoolExecutor, and the pickle file all monitors load and rewrite.  *)
(*                                                                         *)
(* Strings are sequences of one-character strings; a SeenKey               *)
(* f"{subreddit}-{id}" is the pair <<subreddit, id>>; Python's None is the *)
(* empty sequence and an optional integer n is <<n>>.                      *)
(***************************************************************************)
EXTENDS Integers, Sequences, FiniteSets, TLC

\* ------------------------------------------------------------------ bounds
\* Number of main-loop iterations explored (the loop itself is endless).
MaxCycles == 2
\* Number of injected I/O failures of open()/pickle.dump() per run.
MaxIOFaults == 1
\* Bytes one pickled key adds to the state file.
KeyBytes == 3145728
\* The same for an installation whose keys are large: one key fills the file
\* beyond max_file_size.
BigKeyBytes == 6291456
\* Longest title and longest keyword the keyword clause is evaluated on.
MaxTitleLen == 3
MaxKeywordLen == 2
\* The same for an installation whose keys are small: the file stays below
\* max_file_size whatever is recorded.
SmallKeyBytes == 1048576

\* --------------------------------------------------------------- constants
\* bot.py:51
max_file_size == 5 * 1024 * 1024
\* bot.py:114, subreddit_obj.new(limit=10)
limit == 10

\* search.json as read by load_configuration(): params passed to RedditMonitor.
subreddits_to_search ==
    << [subreddit |-> "A", keywords |-> << <<"f", "o">>, <<"b">> >>, min_upvotes |-> <<2>>],
       [subreddit |-> "B", keywords |-> << >>, min_upvotes |-> << >>] >>

Tasks == 1 .. Len(subreddits_to_search)
\* The submissions a subreddit's listing can return (submission.id), and the
\* values submission.score can take when one of them is fetched: the scores of
\* "A" move around its minimum, those of "B" stay below that.
ItemIds == {1, 2}
Scores == {1, 2}
ScoresOf(sub) == IF sub = "A" THEN Scores ELSE {1}

\* submission.title of the submission with a given id (fixed once posted).
TitleOf(id) ==
    CASE id = 1 -> <<"F", "o", "B">>
      [] id = 2 -> <<"f", "o", "o">>
      [] OTHER  -> <<"x">>

\* submission_id = f"{self.subreddit}-{submission.id}"
SeenKey(sub, id) == <<sub, id>>

Keys == {SeenKey(subreddits_to_search[i].subreddit, id) : i \in Tasks, id \in ItemIds}

\* ------------------------------------------------------------ pure helpers
\* str.lower() on one character.
LowerChar(c) ==
    CASE c = "F" -> "f"
      [] c = "O" -> "o"
      [] c = "B" -> "b"
      [] c = "X" -> "x"
      [] OTHER   -> c

\* str.lower()
Lower(s) == [k \in 1 .. Len(s) |-> LowerChar(s[k])]

\* Python's `needle in haystack` on strings.
Contains(haystack, needle) ==
    \E k \in 0 .. Len(haystack) :
        /\ k + Len(needle) <= Len(haystack)
        /\ \A j \in 1 .. Len(needle) : haystack[k + j] = needle[j]

\* Variant: any() in place of all().
KeywordsMatchAny(title, keywords) ==
    \E k \in 1 .. Len(keywords) : Contains(Lower(title), keywords[k])

\* all(keyword in submission.title.lower() for keyword in self.keywords)
KeywordsMatch(title, keywords) ==
    \A k \in 1 .. Len(keywords) : Contains(Lower(title), keywords[k])

\* self.min_upvotes is None or submission.score >= self.min_upvotes
ScoreOk(score, min_upvotes) ==
    min_upvotes = << >> \/ score >= min_upvotes[1]

\* The condition of the `if` at bot.py:127-128.
IsMatch(id, score, params) ==
    /\ KeywordsMatch(TitleOf(id), params.keywords)
    /\ ScoreOk(score, params.min_upvotes)

\* Variant: the exception of a failed delivery leaves send_push_notification.
send_push_notification_raises(delivered) == IF delivered THEN "sent" ELSE "raised"

\* send_push_notification: every exception of the delivery is caught and logged.
send_push_notification(delivered) == IF delivered THEN "sent" ELSE "logged"

\* Variant: the add sits outside the `if`, so every evaluated item is added.
AddAlways(set, key, act) == set \cup {key}

\* The set held after bot.py:127-133: only a notified item is added.
AddIfNotified(set, key, act) == IF act = "notify" THEN set \cup {key} ELSE set

\* The characters of titles and of the keywords search.json may hold (json.load
\* hands them over as written), and the strings of at most n of them.
Letters == {"f", "F", "o"}
Strings(n) == UNION {[1 .. k -> Letters] : k \in 0 .. n}

\* ------------------------------------------------------------------- state
VARIABLES
    file,                   \* the state file: [st: missing|partial|ok, keys]
    pc_main,                \* main(): submit | result | sleep | raising | crashed
    nxt,                    \* main(): index of the next params / future
    loopTime,               \* main(): completed iterations
    exc_main,               \* main(): the exception that is leaving it, or "none"
    tpc,                    \* per task: position in search_reddit_for_keywords
    processed_submissions,  \* per task: the monitor's in-memory seen set
    yielded,                \* per task: ids the listing has yielded this pass
    last,                   \* per task: the item evaluated last and what was done
    sent,                   \* per task: what the send_push_notification call just made did
    errs,                   \* per task: error notifications sent this pass
    unlinked,               \* per task: its open file was removed by another save
    removed,                \* per task: its save in progress has taken the size-reset branch
    born,                   \* per task: the value of loopTime when it was submitted
    notifyCount,            \* history: send_push_notification calls per key (2: twice or more)
    unsaved,                \* history: keys whose save raised an exception
    belowMin,               \* history: keys evaluated while below the minimum score
    prevIsolated,           \* history: in the cycle before, one fetch failed and another pass succeeded
    env,                    \* the installation: [active: the entries of subreddits_to_search
                            \* that search.json holds, keyBytes: bytes per pickled key]
    probe                   \* one evaluation of the keyword clause: [keyword, title, verdict]

vars == << file, pc_main, nxt, loopTime, exc_main, tpc, processed_submissions, yielded,
           last, sent, errs, unlinked, removed, born, notifyCount, unsaved, belowMin,
           prevIsolated, env, probe >>

\* What no step of main() or of a task changes.
fixedVars == << env, probe >>

\* os.path.getsize of the state file.
FileSize(f) == IF f.st = "ok" THEN Cardinality(f.keys) * env.keyBytes ELSE 0

\* The first entry of the configured list, and the entry after entry i.
FirstActive == CHOOSE j \in env.active : \A k \in env.active : j <= k
IsLastActive(i) == \A k \in env.active : k <= i
NextActive(i) ==
    CHOOSE j \in env.active : j > i /\ \A k \in env.active : k > i => j <= k

NoProbe == [keyword |-> << >>, title |-> << >>, verdict |-> "none"]

Missing == [st |-> "missing", keys |-> {}]
Partial == [st |-> "partial", keys |-> {}]

\* Variant: the dump writes an empty set whatever the monitor holds.
PickledNothing(set) == [st |-> "ok", keys |-> {}]

\* The file after pickle.dump(self.processed_submissions, file).
Pickled(set) == [st |-> "ok", keys |-> set]

NoItem == [id |-> 0, score |-> 0, act |-> "none"]

Sub(i) == subreddits_to_search[i].subreddit

Running(i) == tpc[i] \notin {"none", "returned", "raised"}

\* Variant: the executor is left without waiting for its tasks.
ExitReadyNoWait == TRUE

\* ThreadPoolExecutor.__exit__ -> shutdown(wait=True): every submitted task is over.
ExitReady == \A i \in Tasks : ~Running(i)

\* load_processed_submissions: FileNotFoundError alone is caught; what pickle.load
\* raises on a file that is no complete pickle is not.
load_processed_submissions(f) ==
    CASE f.st = "ok"      -> [exc |-> "none", set |-> f.keys]
      [] f.st = "missing" -> [exc |-> "none", set |-> {}]
      [] OTHER            -> [exc |-> "PickleError", set |-> {}]

\* The state in which main() enters its loop, for an installation with the
\* given configured entries and key size.
InitWith(active, keyBytes) ==
    /\ env = [active |-> active, keyBytes |-> keyBytes]
    /\ pc_main = "submit"
    /\ nxt = CHOOSE j \in active : \A k \in active : j <= k
    /\ loopTime = 0
    /\ tpc = [i \in Tasks |-> "none"]
    /\ processed_submissions = [i \in Tasks |-> {}]
    /\ yielded = [i \in Tasks |-> << >>]
    /\ last = [i \in Tasks |-> NoItem]
    /\ sent = [i \in Tasks |-> "none"]
    /\ errs = [i \in Tasks |-> << >>]
    /\ unlinked = [i \in Tasks |-> FALSE]
    /\ notifyCount = [k \in Keys |-> 0]
    /\ unsaved = {}
    /\ belowMin = {}
    /\ prevIsolated = FALSE
    /\ exc_main = "none"
    /\ removed = [i \in Tasks |-> FALSE]
    /\ born = [i \in Tasks |-> 0]

Init ==
    /\ file \in {Missing, Partial}
    /\ InitWith(Tasks, KeyBytes)
    /\ probe = NoProbe

\* ------------------------------------------------------------------ main()
mainVars == << pc_main, nxt, loopTime, exc_main >>
histVars == << notifyCount, unsaved, belowMin, prevIsolated >>

\* f"Error during Reddit search for '{self.subreddit}': {e}"
ErrorMessage(i, e) == [subreddit |-> Sub(i), cause |-> e]

\* The pass of task i ended in the handler of a failed fetch.
FetchFailed(i) ==
    tpc[i] = "returned" /\ errs[i] # << >> /\ errs[i][Len(errs[i])].cause = "fetch"

\* The pass of task i ran to the end of the listing without any exception.
Succeeded(i) == tpc[i] = "returned" /\ errs[i] = << >>

\* One element of the list comprehension at bot.py:160: RedditMonitor(reddit,
\* **params) runs __init__ and with it the load, then the bound method is
\* submitted and a worker thread starts on it.
Submit(i) ==
    /\ pc_main = "submit"
    /\ i \in env.active
    /\ nxt = i
    /\ LET r == load_processed_submissions(file) IN
         IF r.exc # "none"
         THEN /\ pc_main' = "raising"
              /\ exc_main' = r.exc
              /\ UNCHANGED << nxt, tpc, processed_submissions, born >>
         ELSE /\ processed_submissions' = [processed_submissions EXCEPT ![i] = r.set]
              /\ tpc' = [tpc EXCEPT ![i] = "fetch"]
              /\ born' = [born EXCEPT ![i] = loopTime]
              /\ pc_main' = IF IsLastActive(i) THEN "result" ELSE "submit"
              /\ nxt' = IF IsLastActive(i) THEN FirstActive ELSE NextActive(i)
              /\ UNCHANGED exc_main
    /\ UNCHANGED << file, loopTime, yielded, last, sent, errs, unlinked, removed, histVars >>
    /\ UNCHANGED fixedVars

\* The loop over future.result() at bot.py:162-168, the end of the `with` block
\* and bot.py:170-173. A future that raised enters the handler, whose
\* RedditMonitor(reddit) lacks two required arguments and raises TypeError itself.
Join ==
    /\ pc_main = "result"
    /\ ExitReady
    /\ IF \E i \in Tasks : tpc[i] = "raised"
       THEN pc_main' = "raising" /\ exc_main' = "TypeError" /\ UNCHANGED loopTime
       ELSE pc_main' = "sleep" /\ loopTime' = loopTime + 1 /\ UNCHANGED exc_main
    /\ UNCHANGED << file, nxt, tpc, processed_submissions, yielded, last, sent, errs,
                    unlinked, removed, born, histVars >>
    /\ UNCHANGED fixedVars

\* time.sleep returns and the next iteration of `while True` begins; the monitors
\* of the finished cycle are garbage. `record` switches the history variable
\* prevIsolated on.
Wake(record) ==
    /\ pc_main = "sleep"
    /\ loopTime < MaxCycles
    /\ pc_main' = "submit"
    /\ nxt' = FirstActive
    /\ prevIsolated' = (record /\ \E a, b \in Tasks : a # b /\ FetchFailed(a) /\ Succeeded(b))
    /\ tpc' = [i \in Tasks |-> "none"]
    /\ processed_submissions' = [i \in Tasks |-> {}]
    /\ yielded' = [i \in Tasks |-> << >>]
    /\ last' = [i \in Tasks |-> NoItem]
    /\ sent' = [i \in Tasks |-> "none"]
    /\ errs' = [i \in Tasks |-> << >>]
    /\ unlinked' = [i \in Tasks |-> FALSE]
    /\ removed' = [i \in Tasks |-> FALSE]
    /\ born' = [i \in Tasks |-> 0]
    /\ UNCHANGED << file, loopTime, exc_main, notifyCount, unsaved, belowMin >>
    /\ UNCHANGED fixedVars

Sleep == Wake(FALSE)

SleepRecording == Wake(TRUE)

\* The process is stopped while main() sleeps between two cycles and started
\* again: everything in memory is gone, the state file is what it was.
Restart ==
    /\ pc_main = "sleep"
    /\ pc_main' = "submit"
    /\ nxt' = FirstActive
    /\ loopTime' = 0
    /\ prevIsolated' = FALSE
    /\ tpc' = [i \in Tasks |-> "none"]
    /\ processed_submissions' = [i \in Tasks |-> {}]
    /\ yielded' = [i \in Tasks |-> << >>]
    /\ last' = [i \in Tasks |-> NoItem]
    /\ sent' = [i \in Tasks |-> "none"]
    /\ errs' = [i \in Tasks |-> << >>]
    /\ unlinked' = [i \in Tasks |-> FALSE]
    /\ removed' = [i \in Tasks |-> FALSE]
    /\ born' = [i \in Tasks |-> 0]
    /\ UNCHANGED << file, exc_main, notifyCount, unsaved, belowMin >>
    /\ UNCHANGED fixedVars

\* An exception leaving the `with` block: __exit__ waits for the submitted tasks,
\* then the exception leaves main() and the process ends.
Die ==
    /\ pc_main = "raising"
    /\ ExitReady
    /\ pc_main' = "crashed"
    /\ UNCHANGED << file, nxt, loopTime, exc_main, tpc, processed_submissions, yielded,
                    last, sent, errs, unlinked, removed, born, histVars >>
    /\ UNCHANGED fixedVars

\* ------------------------------------------- search_reddit_for_keywords
\* The `except Exception` of bot.py:138-141: one error notification, then return.
Handler(i, e) ==
    /\ errs' = [errs EXCEPT ![i] = Append(errs[i], ErrorMessage(i, e))]
    /\ tpc' = [tpc EXCEPT ![i] = "returned"]

\* The listing raises when asked for its next submission.
FetchFails(i) ==
    /\ tpc[i] = "fetch"
    /\ Handler(i, "fetch")
    /\ removed' = [removed EXCEPT ![i] = FALSE]
    /\ UNCHANGED << file, mainVars, processed_submissions, yielded, last, sent, unlinked,
                    born, histVars >>
    /\ UNCHANGED fixedVars

\* The listing raises and the `except` block of bot.py:138-141 raises in turn
\* while it formats and reports the error: the exception leaves the function and
\* becomes the result of the task's future.
TaskRaises(i) ==
    /\ tpc[i] = "fetch"
    /\ tpc' = [tpc EXCEPT ![i] = "raised"]
    /\ removed' = [removed EXCEPT ![i] = FALSE]
    /\ UNCHANGED << file, mainVars, processed_submissions, yielded, last, sent, errs,
                    unlinked, born, histVars >>
    /\ UNCHANGED fixedVars

\* The listing is exhausted: the loop ends and the function returns.
FetchEnds(i) ==
    /\ tpc[i] = "fetch"
    /\ tpc' = [tpc EXCEPT ![i] = "returned"]
    /\ removed' = [removed EXCEPT ![i] = FALSE]
    /\ UNCHANGED << file, mainVars, processed_submissions, yielded, last, sent, errs,
                    unlinked, born, histVars >>
    /\ UNCHANGED fixedVars

\* What the loop body does with one submission.
Decide(i, id, score) ==
    IF SeenKey(Sub(i), id) \in processed_submissions[i] THEN "skip"
    ELSE IF IsMatch(id, score, subreddits_to_search[i]) THEN "notify"
    ELSE "nomatch"

\* Variant: the save is handed off and the loop goes on while it is under way.
LoopReadyWhileSaving(i) == Running(i)

\* The `for` statement asks the listing for its next submission only when the
\* body of the iteration before, save_processed_submissions included, has returned.
LoopReady(i) == tpc[i] = "fetch"

\* One iteration of the loop at bot.py:114-135, up to the add at line 133. The
\* listing yields at most `limit` submissions, each once.
Evaluate(i, id, score, delivered) ==
    /\ LoopReady(i)
    /\ score \in ScoresOf(Sub(i))
    /\ Len(yielded[i]) < limit
    /\ \A k \in 1 .. Len(yielded[i]) : yielded[i][k] # id
    /\ yielded' = [yielded EXCEPT ![i] = Append(yielded[i], id)]
    /\ removed' = [removed EXCEPT ![i] = FALSE]
    /\ LET key == SeenKey(Sub(i), id)
           act == Decide(i, id, score)
           how == IF act = "notify" THEN send_push_notification(delivered) ELSE "none"
       IN  /\ last' = [last EXCEPT ![i] = [id |-> id, score |-> score, act |-> act]]
           /\ sent' = [sent EXCEPT ![i] = how]
           /\ notifyCount' = IF act = "notify"
                             THEN [notifyCount EXCEPT ![key] = IF notifyCount[key] = 0 THEN 1 ELSE 2]
                             ELSE notifyCount
           /\ belowMin' = IF /\ act = "nomatch"
                             /\ KeywordsMatch(TitleOf(id), subreddits_to_search[i].keywords)
                          THEN belowMin \cup {key}
                          ELSE belowMin
           /\ IF how = "raised"
              THEN Handler(i, "notify") /\ UNCHANGED processed_submissions
              ELSE /\ processed_submissions' =
                        [processed_submissions EXCEPT
                            ![i] = AddIfNotified(processed_submissions[i], key, act)]
                   /\ tpc' = [tpc EXCEPT ![i] = IF act = "notify" THEN "sv_exists" ELSE "fetch"]
                   /\ UNCHANGED errs
    /\ UNCHANGED << file, mainVars, unlinked, born, unsaved, prevIsolated >>
    /\ UNCHANGED fixedVars

\* ------------------------------------------- save_processed_submissions
\* The key added at bot.py:133 right before this save.
SavingKey(i) == SeenKey(Sub(i), last[i].id)

\* An exception inside save_processed_submissions reaches the `except Exception`
\* of search_reddit_for_keywords.
SaveRaises(i) ==
    /\ Handler(i, "io")
    /\ unsaved' = unsaved \cup {SavingKey(i)}

\* os.path.exists at bot.py:84.
SaveExists(i) ==
    /\ tpc[i] = "sv_exists"
    /\ tpc' = [tpc EXCEPT ![i] = IF file.st # "missing" THEN "sv_getsize" ELSE "sv_open"]
    /\ sent' = [sent EXCEPT ![i] = "none"]
    /\ UNCHANGED << file, mainVars, processed_submissions, yielded, last, errs, unlinked,
                    removed, born, histVars >>
    /\ UNCHANGED fixedVars

\* os.path.getsize at bot.py:84; it raises when the file is gone by now.
SaveGetsize(i) ==
    /\ tpc[i] = "sv_getsize"
    /\ IF file.st = "missing"
       THEN SaveRaises(i)
       ELSE /\ tpc' = [tpc EXCEPT ![i] = IF FileSize(file) > max_file_size
                                          THEN "sv_remove" ELSE "sv_open"]
            /\ UNCHANGED << errs, unsaved >>
    /\ UNCHANGED << file, mainVars, processed_submissions, yielded, last, sent, unlinked,
                    removed, born, notifyCount, belowMin, prevIsolated >>
    /\ UNCHANGED fixedVars

\* bot.py:86-87: os.remove, which raises when the file is gone by now, then the
\* in-memory set is replaced by an empty one. A file another save holds open
\* stays writable through its handle but is no longer reachable by name.
SaveRemove(i) ==
    /\ tpc[i] = "sv_remove"
    /\ IF file.st = "missing"
       THEN SaveRaises(i) /\ UNCHANGED << file, processed_submissions, unlinked, removed >>
       ELSE /\ file' = Missing
            /\ unlinked' = [j \in Tasks |-> unlinked[j] \/ (j # i /\ tpc[j] = "sv_dump")]
            /\ processed_submissions' = [processed_submissions EXCEPT ![i] = {}]
            /\ removed' = [removed EXCEPT ![i] = TRUE]
            /\ tpc' = [tpc EXCEPT ![i] = "sv_open"]
            /\ UNCHANGED << errs, unsaved >>
    /\ UNCHANGED << mainVars, yielded, last, sent, born, notifyCount, belowMin,
                    prevIsolated >>
    /\ UNCHANGED fixedVars

\* open(file, 'wb') at bot.py:89 creates or truncates the file.
SaveOpen(i) ==
    /\ tpc[i] = "sv_open"
    /\ file' = Partial
    /\ unlinked' = [unlinked EXCEPT ![i] = FALSE]
    /\ tpc' = [tpc EXCEPT ![i] = "sv_dump"]
    /\ UNCHANGED << mainVars, processed_submissions, yielded, last, sent, errs, removed,
                    born, histVars >>
    /\ UNCHANGED fixedVars

\* open() raises OSError: the file is left as it was.
SaveOpenFails(i) ==
    /\ tpc[i] = "sv_open"
    /\ Cardinality(unsaved) < MaxIOFaults
    /\ SaveRaises(i)
    /\ UNCHANGED << file, mainVars, processed_submissions, yielded, last, sent, unlinked,
                    removed, born, notifyCount, belowMin, prevIsolated >>
    /\ UNCHANGED fixedVars

\* pickle.dump and the close of bot.py:89-90 write the whole set from offset 0.
SaveDump(i) ==
    /\ tpc[i] = "sv_dump"
    /\ file' = IF unlinked[i] THEN file ELSE Pickled(processed_submissions[i])
    /\ unlinked' = [unlinked EXCEPT ![i] = FALSE]
    /\ tpc' = [tpc EXCEPT ![i] = "fetch"]
    /\ UNCHANGED << mainVars, processed_submissions, yielded, last, sent, errs, removed,
                    born, histVars >>
    /\ UNCHANGED fixedVars

\* The write raises OSError: nothing of this save reaches the file.
SaveDumpFails(i) ==
    /\ tpc[i] = "sv_dump"
    /\ Cardinality(unsaved) < MaxIOFaults
    /\ unlinked' = [unlinked EXCEPT ![i] = FALSE]
    /\ SaveRaises(i)
    /\ UNCHANGED << file, mainVars, processed_submissions, yielded, last, sent, removed,
                    born, notifyCount, belowMin, prevIsolated >>
    /\ UNCHANGED fixedVars

\* ------------------------------------------------------------ specifications
Next ==
    \/ \E i \in Tasks : Submit(i)
    \/ Join
    \/ Sleep
    \/ Die
    \/ \E i \in Tasks : FetchFails(i)
    \/ \E i \in Tasks : FetchEnds(i)
    \/ \E i \in Tasks, id \in ItemIds, score \in Scores, delivered \in BOOLEAN :
          Evaluate(i, id, score, delivered)
    \/ \E i \in Tasks : SaveExists(i)
    \/ \E i \in Tasks : SaveGetsize(i)
    \/ \E i \in Tasks : SaveRemove(i)
    \/ \E i \in Tasks : SaveOpen(i)
    \/ \E i \in Tasks : SaveOpenFails(i)
    \/ \E i \in Tasks : SaveDump(i)
    \/ \E i \in Tasks : SaveDumpFails(i)

Spec == Init /\ [][Next]_vars

\* The same program in an environment where open() and the write never fail,
\* with the history of the cycle before recorded in prevIsolated.
NextNoIOFaults ==
    \/ \E i \in Tasks : Submit(i)
    \/ Join
    \/ SleepRecording
    \/ Die
    \/ \E i \in Tasks : FetchFails(i)
    \/ \E i \in Tasks : FetchEnds(i)
    \/ \E i \in Tasks, id \in ItemIds, score \in Scores, delivered \in BOOLEAN :
          Evaluate(i, id, score, delivered)
    \/ \E i \in Tasks : SaveExists(i)
    \/ \E i \in Tasks : SaveGetsize(i)
    \/ \E i \in Tasks : SaveRemove(i)
    \/ \E i \in Tasks : SaveOpen(i)
    \/ \E i \in Tasks : SaveDump(i)

SpecNoIOFaults == Init /\ [][NextNoIOFaults]_vars

\* The same program in an environment where an exception can leave a task.
NextTaskRaises ==
    \/ Next
    \/ \E i \in Tasks : TaskRaises(i)

SpecTaskRaises == Init /\ [][NextTaskRaises]_vars

\* An installation with small keys, where open() and the write never fail: no
\* save ever finds the file above max_file_size, so none takes the removal branch.
InitSmallKeys ==
    /\ file \in {Missing, Partial}
    /\ InitWith(Tasks, SmallKeyBytes)
    /\ probe = NoProbe

NextSmallKeys ==
    \/ \E i \in Tasks : Submit(i)
    \/ Join
    \/ Sleep
    \/ Die
    \/ \E i \in Tasks : FetchFails(i)
    \/ \E i \in Tasks : FetchEnds(i)
    \/ \E i \in Tasks, id \in ItemIds, score \in Scores, delivered \in BOOLEAN :
          Evaluate(i, id, score, delivered)
    \/ \E i \in Tasks : SaveExists(i)
    \/ \E i \in Tasks : SaveGetsize(i)
    \/ \E i \in Tasks : SaveOpen(i)
    \/ \E i \in Tasks : SaveDump(i)

SpecSmallKeys == InitSmallKeys /\ [][NextSmallKeys]_vars

\* An installation with large keys, where open() and the write never fail.
InitBigKeys ==
    /\ file \in {Missing, Partial}
    /\ InitWith(Tasks, BigKeyBytes)
    /\ probe = NoProbe

SpecBigKeys == InitBigKeys /\ [][NextNoIOFaults]_vars

\* An installation whose search.json holds a single entry, with small keys, where
\* open() and the write never fail and the process may be restarted between cycles.
InitSingleSource ==
    /\ file \in {Missing, Partial}
    /\ InitWith({2}, SmallKeyBytes)
    /\ probe = NoProbe

NextSingleSource ==
    \/ \E i \in Tasks : Submit(i)
    \/ Join
    \/ Sleep
    \/ Restart
    \/ Die
    \/ \E i \in Tasks : FetchFails(i)
    \/ \E i \in Tasks : FetchEnds(i)
    \/ \E i \in Tasks, id \in ItemIds, score \in Scores, delivered \in BOOLEAN :
          Evaluate(i, id, score, delivered)
    \/ \E i \in Tasks : SaveExists(i)
    \/ \E i \in Tasks : SaveGetsize(i)
    \/ \E i \in Tasks : SaveOpen(i)
    \/ \E i \in Tasks : SaveDump(i)

SpecSingleSource == InitSingleSource /\ [][NextSingleSource]_vars

\* The keyword clause of bot.py:127 taken alone, on any keyword and title.
InitMatch ==
    /\ file = Missing
    /\ InitWith(Tasks, KeyBytes)
    /\ probe \in [keyword : Strings(MaxKeywordLen), title : Strings(MaxTitleLen),
                   verdict : {"none"}]

MatchKeyword ==
    /\ probe.verdict = "none"
    /\ probe' = [probe EXCEPT !.verdict =
                    IF KeywordsMatch(probe.title, << probe.keyword >>)
                    THEN "match" ELSE "nomatch"]
    /\ UNCHANGED << file, mainVars, tpc, processed_submissions, yielded, last, sent, errs,
                    unlinked, removed, born, histVars, env >>

SpecMatch == InitMatch /\ [][MatchKeyword]_vars

\* ------------------------------------------------------------------ claims
\* The match predicate as the specification words it: every keyword occurs in
\* the title regardless of letter case, and the score reaches the minimum if
\* there is one.
OccursIgnoringCase(keyword, title) ==
    \E a \in 0 .. Len(title) :
        /\ a + Len(keyword) <= Len(title)
        /\ \A j \in 1 .. Len(keyword) : LowerChar(title[a + j]) = LowerChar(keyword[j])

Qualifies(i, id, score) ==
    /\ \A k \in 1 .. Len(subreddits_to_search[i].keywords) :
          OccursIgnoringCase(subreddits_to_search[i].keywords[k], TitleOf(id))
    /\ \/ subreddits_to_search[i].min_upvotes = << >>
       \/ score >= subreddits_to_search[i].min_upvotes[1]

\* C1: at-most-once notification per key within a run: over all cycles of one
\* process lifetime, with the tasks of several subreddits running concurrently,
\* send_push_notification is invoked at most once for any SeenKey.
C1_AtMostOncePerKey == \A k \in Keys : notifyCount[k] <= 1

\* C2: task isolation: when in one cycle the fetch of one subreddit fails and the
\* pass of another succeeds, an error notification naming the failed subreddit has
\* been sent, no qualifying unseen submission of the other was left without a
\* notification, the cycle completes, and the next cycle runs a task for every
\* configured subreddit again, so main() is not brought down in either cycle.
C2_TaskIsolation ==
    /\ \A a, b \in Tasks :
          (a # b /\ FetchFailed(a) /\ Succeeded(b)) =>
              /\ \E n \in 1 .. Len(errs[a]) : errs[a][n].subreddit = Sub(a)
              /\ last[b].act = "nomatch" => ~Qualifies(b, last[b].id, last[b].score)
              /\ pc_main \in {"result", "sleep"}
    /\ prevIsolated => pc_main \in {"submit", "result", "sleep"}

\* C3: cycle non-overlap: the scheduler sleeps only when every task of the current
\* cycle has returned, and a running task always belongs to the current cycle.
C3_CyclesNeverOverlap ==
    /\ pc_main = "sleep" => \A i \in Tasks : ~Running(i)
    /\ \A i \in Tasks : Running(i) => born[i] = loopTime

\* A second cycle is over: its tasks have all returned and the scheduler sleeps.
C3_Witness ==
    /\ pc_main = "sleep"
    /\ loopTime = 2
    /\ \A i \in Tasks : tpc[i] = "returned" /\ born[i] = 1
    /\ \E i \in Tasks : last[i].act = "notify"

\* C4: size-bounded reset: when the state file exceeds max_file_size as the save
\* of a newly notified key K starts, then after that save the in-memory set and
\* the persisted set both hold exactly K.
C4_ResetKeepsNewKey ==
    \A i \in Tasks :
        (removed[i] /\ tpc[i] = "fetch") =>
            /\ processed_submissions[i] = {SavingKey(i)}
            /\ file = Pickled({SavingKey(i)})

\* C5: non-matching items are never marked seen: an evaluation that finds the
\* predicate false adds no key, a key that was below the minimum score and never
\* notified is in no seen set, and when such an item is fetched again with a
\* qualifying score it is notified rather than skipped unnotified.
C5_NonMatchingNeverSeen ==
    /\ \A i \in Tasks :
          last[i].act = "nomatch" =>
              SeenKey(Sub(i), last[i].id) \notin processed_submissions[i]
    /\ \A k \in belowMin :
          notifyCount[k] = 0 =>
              /\ k \notin file.keys
              /\ \A i \in Tasks : k \notin processed_submissions[i]
    /\ \A i \in Tasks :
          (/\ last[i].act # "none"
           /\ SeenKey(Sub(i), last[i].id) \in belowMin
           /\ Qualifies(i, last[i].id, last[i].score)) =>
              /\ last[i].act \in {"notify", "skip"}
              /\ notifyCount[SeenKey(Sub(i), last[i].id)] >= 1

\* A key that was below the minimum score in an earlier pass has just been
\* notified, for the first time.
C5_Witness ==
    \E i \in Tasks :
        /\ SeenKey(Sub(i), last[i].id) \in belowMin
        /\ last[i].act = "notify"
        /\ notifyCount[SeenKey(Sub(i), last[i].id)] = 1
        /\ loopTime = 1

\* C6: match predicate: an unseen fetched submission is notified if and only if
\* all keywords occur in its title (an empty keyword list always does) and the
\* minimum score is absent or reached (a score equal to the minimum counts).
C6_MatchPredicate ==
    \A i \in Tasks :
        last[i].act \in {"notify", "nomatch"} =>
            /\ last[i].act = "notify" <=> Qualifies(i, last[i].id, last[i].score)
            /\ last[i].act = "notify" => notifyCount[SeenKey(Sub(i), last[i].id)] >= 1

\* The two-keyword subreddit has notified a submission whose score equals the
\* minimum while the keyword-less subreddit has notified one as well.
C6_Witness ==
    /\ last[1] = [id |-> 1, score |-> 2, act |-> "notify"]
    /\ last[2].act = "notify"
    /\ notifyCount[SeenKey(Sub(1), 1)] = 1

\* C7: load never fails its caller: a state file that is missing or cannot be
\* deserialized yields the empty set, and no load error leaves main().
C7_LoadNeverFails == exc_main # "PickleError"

\* C8: a persistence failure is swallowed at the store boundary: no error
\* notification is ever sent for an I/O error of the save, whose pass goes on.
C8_PersistFailureSwallowed ==
    \A i \in Tasks : \A n \in 1 .. Len(errs[i]) : errs[i][n].cause # "io"

\* C9: the in-memory set stays authoritative for the run: a key whose save
\* failed after its notification is not notified a second time.
C9_UnsavedKeyStaysSeen == \A k \in unsaved : notifyCount[k] <= 1

\* C10: a delivery failure is contained at the dispatch step: right after a
\* failed delivery the key is in the in-memory set, the pass continues into the
\* save with no error notification sent, and no error notification is ever
\* sent because of a delivery.
C10_DeliveryFailureContained ==
    /\ \A i \in Tasks :
          sent[i] \in {"logged", "raised"} =>
              /\ SeenKey(Sub(i), last[i].id) \in processed_submissions[i]
              /\ tpc[i] = "sv_exists"
              /\ errs[i] = << >>
    /\ \A i \in Tasks : \A n \in 1 .. Len(errs[i]) : errs[i][n].cause # "notify"

\* The delivery of a match notification has just failed and the pass goes on.
C10_Witness ==
    \E i \in Tasks :
        /\ sent[i] = "logged"
        /\ last[i].act = "notify"
        /\ tpc[i] = "sv_exists"

\* C11: scheduler-level failure handling: a task whose result is an unhandled
\* error never aborts the cycle or the process: the handler of the scheduler
\* reports it and does not itself raise out of main().
C11_SchedulerSurvivesTaskFailure ==
    (\E i \in Tasks : tpc[i] = "raised") => exc_main # "TypeError"

\* A task is inside save_processed_submissions past its first check of the file.
InRecord(i) == tpc[i] \in {"sv_getsize", "sv_remove", "sv_open", "sv_dump"}

\* C12: record() is a single critical section: two concurrently running tasks
\* are never both between the size check and the end of the write of their own
\* save, so no task removes or writes the file inside another task's save.
C12_RecordIsCriticalSection ==
    \A a, b \in Tasks : a # b => ~(InRecord(a) /\ InRecord(b))

\* C13: the scheduler repeats forever: whatever a fetch, a notification, a save
\* or the content of the state file does, main() never leaves its loop, so every
\* cycle is followed by another.
C13_SchedulerNeverStops == pc_main \notin {"raising", "crashed"}

\* C14: no lost updates between concurrent tasks: with no I/O error and no
\* overflow reset, a key whose save has completed is in the persisted set and
\* stays there whatever the tasks of the other subreddits save in the same cycle,
\* so that once every task of the cycle is over the persisted set holds every
\* key every task holds.
C14_NoLostUpdates ==
    /\ \A i \in Tasks :
          (tpc[i] \in {"fetch", "returned"} /\ last[i].act = "notify") =>
              (file.st = "ok" => SavingKey(i) \in file.keys)
    /\ pc_main = "sleep" =>
          \A i \in Tasks : processed_submissions[i] \subseteq file.keys

\* C15: keyword matching is case-insensitive: whatever the letter case of the
\* configured keyword and of the title, the keyword clause holds exactly when
\* the keyword, compared without regard to case, is a substring of the title.
C15_KeywordCaseInsensitive ==
    probe.verdict # "none" =>
        (probe.verdict = "match" <=> OccursIgnoringCase(probe.keyword, probe.title))

\* C16: the persisted seen set is size-bounded in every reachable state, also
\* when several tasks record concurrently: the state file is never larger than
\* max_file_size plus the one key of the save that crossed the threshold.
C16_PersistedSizeBounded == FileSize(file) <= max_file_size + env.keyBytes

\* C17: within one pass the items are processed in fetch order: while a task is
\* in the save of a key, that key belongs to the submission fetched last and its
\* notification and add are done, and the next submission is fetched only when
\* every step for the one before is over.
C17_FetchOrder ==
    /\ [](\A i \in Tasks :
            (tpc[i] = "sv_exists" \/ InRecord(i)) =>
                /\ last[i].act = "notify"
                /\ yielded[i] # << >>
                /\ last[i].id = yielded[i][Len(yielded[i])]
                /\ notifyCount[SavingKey(i)] >= 1
                /\ SavingKey(i) \in processed_submissions[i] \/ removed[i])
    /\ [][\A i \in Tasks :
            Len(yielded'[i]) = Len(yielded[i]) + 1 => tpc[i] = "fetch"]_vars

\* A pass has notified and saved two submissions one after the other, in the
\* order the listing returned them.
C17_Witness ==
    /\ yielded[2] = << 2, 1 >>
    /\ tpc[2] = "fetch"
    /\ last[2] = [id |-> 1, score |-> 1, act |-> "notify"]
    /\ processed_submissions[2] = {SeenKey("B", 2), SeenKey("B", 1)}
    /\ file = Pickled({SeenKey("B", 2), SeenKey("B", 1)})

\* Task i has been created and has not fetched anything yet: its set is the one
\* its monitor loaded.
Fresh(i) == tpc[i] = "fetch" /\ yielded[i] = << >>

\* C18: every task of a cycle starts from the seen set persisted at the end of the
\* cycle before: tasks that have just been created hold the same set, in the
\* first cycle of a run without a state file that set is empty, and a load never
\* fails on a file a task submitted earlier in the cycle is rewriting.
C18_TasksStartFromSameSet ==
    /\ \A i, j \in Tasks :
          (Fresh(i) /\ Fresh(j)) => processed_submissions[i] = processed_submissions[j]
    /\ loopTime = 0 => \A i \in Tasks : Fresh(i) => processed_submissions[i] = {}
    /\ exc_main = "PickleError" => nxt = FirstActive

\* C19: a fetch failure part-way through a pass does not undo earlier work: when
\* the listing fails after a submission was notified, exactly one error
\* notification is sent for the pass, the notified key stays in the in-memory
\* set, and once the cycle is over it is in the persisted set, from which the
\* next cycle loads it and skips the submission.
C19_PartialPassKept ==
    \A i \in Tasks :
        (FetchFailed(i) /\ last[i].act = "notify") =>
            /\ Len(errs[i]) = 1
            /\ SavingKey(i) \in processed_submissions[i]
            /\ pc_main = "sleep" => SavingKey(i) \in file.keys

\* C20: with a single configured source, no I/O failure and the state file below
\* max_file_size, dedup is exact across cycles and restarts: when a cycle is over
\* the state file loads to exactly the set its task holds in memory, which is
\* what the task of the next cycle, or of the restarted process, starts from, and
\* no key is ever notified twice.
C20_ExactDedupSingleSource ==
    /\ \A k \in Keys : notifyCount[k] <= 1
    /\ FileSize(file) <= max_file_size
    /\ pc_main = "sleep" =>
          \A i \in env.active :
              load_processed_submissions(file) =
                  [exc |-> "none", set |-> processed_submissions[i]]
    /\ \A i \in Tasks :
          Fresh(i) => \A k \in Keys : notifyCount[k] >= 1 => k \in processed_submissions[i]

\* After a restart the task skips a submission that was notified, once, before.
C20_Witness ==
    /\ loopTime = 0
    /\ last[2].act = "skip"
    /\ notifyCount[SeenKey("B", last[2].id)] = 1
    /\ Cardinality(file.keys) = 2

====
